---- MODULE Spec2Model ----
(***************************************************************************)
(* Sneaker Engine frontend: the Inventory view-state                       *)
(* (inventory.component.ts), the Auth session store (auth.service.ts) and  *)
(* the data service (sneaker.service.ts), as state machines.               *)
(*                                                                         *)
(* Strings are sequences of UTF-16 code units (naturals), so that          *)
(* toLowerCase, includes, === and the default Array.sort order are         *)
(* computed the way JavaScript computes them.  Sizes are numbers counted   *)
(* in tenths (85 is 8.5); Number.toString and parseFloat are computed      *)
(* digit by digit.                                                         *)
(***************************************************************************)
EXTENDS Integers, Sequences, FiniteSets, TLC

VARIABLES
    sneakers,            \* InventoryComponent.sneakers   signal<Sneaker[]>
    isLoading,           \* InventoryComponent.isLoading  signal<boolean>
    searchText,          \* InventoryComponent.searchText
    selectedBrand,       \* InventoryComponent.selectedBrand
    selectedSize,        \* InventoryComponent.selectedSize
    sneakerForm,         \* InventoryComponent.sneakerForm: [value, disabled]
    initialised,         \* ngOnInit of the component has run
    requests,            \* HTTP requests of SneakerService, in order of issue
    db,                  \* the items the REST server holds
    localStorage,        \* the keys access_token and currentUser
    currentUserSubject,  \* AuthService.currentUserSubject.value
    calls,               \* subscriptions to login() / signup(), in order of call
    lastOp,              \* the handler that ran last, with what it was given
    computedOut,         \* the value last read from a computed() signal
    sneaker,             \* SneakerDetailComponent.sneaker    signal<Sneaker | null>
    detailIsLoading,     \* SneakerDetailComponent.isLoading
    isEditing,           \* SneakerDetailComponent.isEditing
    editForm,            \* SneakerDetailComponent.editForm: [value, disabled]
    route,               \* ActivatedRoute.snapshot.url: the path segments
    routerUrl,           \* where the Router was last told to navigate
    script,              \* a run of destroy.sh: position, $ENV, $REPLY, stdin, commands run
    loggedOut            \* logout() was called, and neither login() nor signup() since

viewVars == <<sneakers, isLoading, searchText, selectedBrand, selectedSize, sneakerForm,
              initialised>>
netVars  == <<requests, db>>
authVars == <<localStorage, currentUserSubject, calls>>
detailVars == <<sneaker, detailIsLoading, isEditing, editForm, route, routerUrl>>

vars == <<sneakers, isLoading, searchText, selectedBrand, selectedSize, sneakerForm,
          initialised, requests, db, localStorage, currentUserSubject, calls, lastOp,
          computedOut, sneaker, detailIsLoading, isEditing, editForm, route, routerUrl,
          script, loggedOut>>

----------------------------------------------------------------------------
(* Bounds *)

MaxItems == 3        \* longest item list drawn as input of the computed signals
MaxRequests == 3     \* HTTP requests the inventory view issues in one run
MaxCalls == 2        \* login() / signup() subscriptions in one run

----------------------------------------------------------------------------
(* JavaScript values *)

\* `undefined` and `null` in a string-typed position: no string holds a
\* negative code unit.
Undefined == <<-1>>
Null == <<-2>>
NoNumber == -1       \* null / undefined in a number-typed position

\* if (x), x && ...  for a string-typed x
Truthy(x) == x # Undefined /\ x # Null /\ x # <<>>

\* String.prototype.toLowerCase on the ASCII range: 'A'..'Z' -> 'a'..'z'
ToLowerCase(s) == [i \in 1..Len(s) |-> IF s[i] \in 65..90 THEN s[i] + 32 ELSE s[i]]

\* String.prototype.includes
Includes(s, q) == \E i \in 0..(Len(s) - Len(q)) : SubSeq(s, i + 1, i + Len(q)) = q

\* decimal digits of a natural, most significant first
RECURSIVE Digits(_)
Digits(n) == IF n < 10 THEN <<48 + n>> ELSE Digits(n \div 10) \o <<48 + (n % 10)>>

\* Number.prototype.toString of a size held in tenths: 90 -> "9", 85 -> "8.5"
NumToString(n) ==
    Digits(n \div 10) \o (IF n % 10 = 0 THEN <<>> ELSE <<46, 48 + (n % 10)>>)

\* value of the longest prefix of decimal digits of s, and its length
RECURSIVE DigitRun(_, _, _)
DigitRun(s, i, acc) ==
    IF i <= Len(s) /\ s[i] \in 48..57
    THEN DigitRun(s, i + 1, [val |-> acc.val * 10 + (s[i] - 48), len |-> acc.len + 1])
    ELSE acc

\* parseFloat, in tenths: the integer digits, then an optional '.' and the
\* first fractional digit ("8.5" -> 85, "10" -> 100)
ParseFloat(s) ==
    LET int == DigitRun(s, 1, [val |-> 0, len |-> 0])
        dot == int.len + 1
    IN  IF dot < Len(s) /\ s[dot] = 46 /\ s[dot + 1] \in 48..57
        THEN int.val * 10 + (s[dot + 1] - 48)
        ELSE int.val * 10

\* the default comparison of Array.prototype.sort: by UTF-16 code units
RECURSIVE CompareDefault(_, _)
CompareDefault(a, b) ==
    IF a = <<>> THEN (IF b = <<>> THEN 0 ELSE -1)
    ELSE IF b = <<>> THEN 1
    ELSE IF a[1] < b[1] THEN -1
    ELSE IF a[1] > b[1] THEN 1
    ELSE CompareDefault(Tail(a), Tail(b))

\* (a, b) => parseFloat(a) - parseFloat(b)
CompareSizes(a, b) == ParseFloat(a) - ParseFloat(b)

Compare(bySize, a, b) == IF bySize THEN CompareSizes(a, b) ELSE CompareDefault(a, b)

\* Array.prototype.sort (stable): insertion of each element after the last
\* element that does not compare greater
RECURSIVE Insert(_, _, _)
Insert(bySize, sorted, x) ==
    IF sorted = <<>> THEN <<x>>
    ELSE IF Compare(bySize, sorted[Len(sorted)], x) <= 0 THEN Append(sorted, x)
    ELSE Append(Insert(bySize, SubSeq(sorted, 1, Len(sorted) - 1), x), sorted[Len(sorted)])

RECURSIVE SortFrom(_, _, _)
SortFrom(bySize, sorted, rest) ==
    IF rest = <<>> THEN sorted
    ELSE SortFrom(bySize, Insert(bySize, sorted, Head(rest)), Tail(rest))

ArraySort(arr, bySize) == SortFrom(bySize, <<>>, arr)

\* Array.from(new Set(arr)): the first occurrence of each value, in order
RECURSIVE ArrayFromSet(_)
ArrayFromSet(arr) ==
    IF arr = <<>> THEN <<>>
    ELSE LET init == ArrayFromSet(SubSeq(arr, 1, Len(arr) - 1))
             x == arr[Len(arr)]
         IN  IF \E i \in 1..Len(init) : init[i] = x THEN init ELSE Append(init, x)

----------------------------------------------------------------------------
(* InventoryComponent: the computed signals *)

\* this.sneakers().map(s => s.brand), .map(s => s.size.toString())
BrandsOf(items) == [i \in 1..Len(items) |-> items[i].brand]
SizeStringsOf(items) == [i \in 1..Len(items) |-> NumToString(items[i].size)]

AvailableBrands_unsorted(items) == ArrayFromSet(BrandsOf(items))

AvailableBrands(items) == ArraySort(ArrayFromSet(BrandsOf(items)), FALSE)

AvailableSizes_lexical(items) == ArraySort(ArrayFromSet(SizeStringsOf(items)), FALSE)

AvailableSizes(items) == ArraySort(ArrayFromSet(SizeStringsOf(items)), TRUE)

SearchMatches(s, search) ==
    \/ Includes(ToLowerCase(s.brand), search)
    \/ Includes(ToLowerCase(s.model), search)
    \/ Includes(ToLowerCase(s.sku), search)
    \/ (Truthy(s.color) /\ Includes(ToLowerCase(s.color), search))

FilteredSneakers_noSku(items, text, brand, size) ==
    LET search == ToLowerCase(text)
        Hit(s) == \/ Includes(ToLowerCase(s.brand), search)
                  \/ Includes(ToLowerCase(s.model), search)
                  \/ (Truthy(s.color) /\ Includes(ToLowerCase(s.color), search))
        bySearch == IF Truthy(search) THEN SelectSeq(items, Hit) ELSE items
        byBrand  == IF Truthy(brand)
                    THEN SelectSeq(bySearch, LAMBDA s : s.brand = brand)
                    ELSE bySearch
    IN  IF Truthy(size)
        THEN SelectSeq(byBrand, LAMBDA s : NumToString(s.size) = size)
        ELSE byBrand

FilteredSneakers(items, text, brand, size) ==
    LET search == ToLowerCase(text)
        bySearch == IF Truthy(search)
                    THEN SelectSeq(items, LAMBDA s : SearchMatches(s, search))
                    ELSE items
        byBrand  == IF Truthy(brand)
                    THEN SelectSeq(bySearch, LAMBDA s : s.brand = brand)
                    ELSE bySearch
        bySize   == IF Truthy(size)
                    THEN SelectSeq(byBrand, LAMBDA s : NumToString(s.size) = size)
                    ELSE byBrand
    IN  bySize

availableBrands == AvailableBrands(sneakers)
availableSizes == AvailableSizes(sneakers)
filteredSneakers == FilteredSneakers(sneakers, searchText, selectedBrand, selectedSize)

----------------------------------------------------------------------------
(* Initial values of the three components *)

\* new FormGroup({...}): '' for the text controls, null for the two numbers
EmptyFormValue ==
    [sku |-> <<>>, brand |-> <<>>, model |-> <<>>, size |-> NoNumber, color |-> <<>>,
     purchase_price |-> NoNumber, description |-> <<>>]

\* `null` where a User is expected
NoUser == [id |-> 0, email |-> <<>>, middle_name |-> Undefined]

ViewInit ==
    /\ sneakers = <<>>
    /\ isLoading = FALSE
    /\ searchText = <<>>
    /\ selectedBrand = <<>>
    /\ selectedSize = <<>>
    /\ sneakerForm = [value |-> EmptyFormValue, disabled |-> FALSE]
    /\ initialised = FALSE

NetInit == requests = <<>> /\ db = <<>>

StorageInit == localStorage = [access_token |-> Null, currentUser |-> Null]

----------------------------------------------------------------------------
(* Users, tokens and the persisted session *)

\* a User as /api/users/me returns it: "a" without middle name, "b" with a null
\* middle name, "ab" with middle name "c"
User(id, email, middle) == [id |-> id, email |-> email, middle_name |-> middle]
Users == { User(1, <<97>>, Undefined), User(2, <<98>>, Null), User(3, <<97, 98>>, <<99>>) }
UserById(id) == CHOOSE u \in Users : u.id = id

\* the access token the login endpoint issues for a user: "t1", "t2"
TokenOf(id) == <<116, 48 + id>>
\* the user a bearer token authenticates, 0 when it authenticates nobody
UserIdOfToken(tok) == IF \E u \in Users : TokenOf(u.id) = tok
                      THEN (CHOOSE u \in Users : TokenOf(u.id) = tok).id
                      ELSE 0

\* position of the first ',' of s at or after i, Len(s) + 1 when there is none
RECURSIVE NextComma(_, _)
NextComma(s, i) == IF i > Len(s) \/ s[i] = 44 THEN i ELSE NextComma(s, i + 1)

\* JSON.stringify(user): the members in order, separated by ','; a member that
\* is undefined is left out, null is written n, a string after a '"'
Stringify(u) ==
    Digits(u.id) \o <<44>> \o u.email \o
    (IF u.middle_name = Undefined THEN <<>>
     ELSE IF u.middle_name = Null THEN <<44, 110>>
     ELSE <<44, 34>> \o u.middle_name)

\* JSON.parse of a stringified user
Parse(json) ==
    LET c1 == NextComma(json, 1)
        c2 == NextComma(json, c1 + 1)
        rest == SubSeq(json, c2 + 1, Len(json))
    IN  [id |-> DigitRun(json, 1, [val |-> 0, len |-> 0]).val,
         email |-> SubSeq(json, c1 + 1, c2 - 1),
         middle_name |-> IF c2 > Len(json) THEN Undefined
                         ELSE IF rest = <<110>> THEN Null
                         ELSE Tail(rest)]

\* AuthService.currentUserValue
currentUserValue == currentUserSubject

----------------------------------------------------------------------------
(* Drawn inputs *)

\* a Sneaker as the list endpoint returns it
Item(id, sku, brand, model, size, color) ==
    [id |-> id, sku |-> sku, brand |-> brand, model |-> model, size |-> size,
     color |-> color, purchase_price |-> NoNumber, description |-> Undefined, user_id |-> 1]

\* "Ab"/"C"/"d" 9, "B"/"ab"/"D"/"E" 10, "Ab"/"c"/"e"/"" 8.5, "ab"/"E"/"Da"/"B" 10,
\* "B"/"C"/"bA"/null 10.5
ItemPool ==
    { Item(1, <<100>>, <<65, 98>>, <<67>>, 90, Undefined),
      Item(2, <<68>>, <<66>>, <<97, 98>>, 100, <<69>>),
      Item(3, <<101>>, <<65, 98>>, <<99>>, 85, <<>>),
      Item(4, <<68, 97>>, <<97, 98>>, <<69>>, 100, <<66>>),
      Item(5, <<98, 65>>, <<66>>, <<67>>, 105, Null) }

\* "", "aB", "d", "E", "b"
SearchTexts == { <<>>, <<97, 66>>, <<100>>, <<69>>, <<98>> }
\* "", "Ab", "B", "x"
BrandChoices == { <<>>, <<65, 98>>, <<66>>, <<120>> }
\* "", "9", "10", "8.5", "9.0"
SizeChoices == { <<>>, <<57>>, <<49, 48>>, <<56, 46, 53>>, <<57, 46, 48>> }

----------------------------------------------------------------------------
(* SneakerService and the REST server behind it *)

\* this.http.get / this.http.post: a request record appended to the requests
\* in flight.  auth is the user the stored bearer token authenticates; after
\* is the set of ids whose create callback had run when the request was issued.
CreatedIds ==
    { requests[i].response.id :
        i \in { j \in 1..Len(requests) : /\ requests[j].kind = "create"
                                         /\ requests[j].state = "done"
                                         /\ requests[j].ok } }

NoItem == [id |-> 0]

\* the requests whose response has not been delivered
Outstanding == { i \in 1..Len(requests) : requests[i].state # "done" }

getSneakers(userId) ==
    [kind |-> "list", state |-> "sent", ok |-> FALSE, userId |-> userId, id |-> 0,
     body |-> EmptyFormValue, response |-> NoItem, list |-> <<>>,
     auth |-> UserIdOfToken(localStorage.access_token), after |-> CreatedIds,
     open |-> Outstanding]

createSneaker(draft) ==
    [kind |-> "create", state |-> "sent", ok |-> FALSE, userId |-> 0, id |-> 0,
     body |-> draft, response |-> NoItem, list |-> <<>>,
     auth |-> UserIdOfToken(localStorage.access_token), after |-> CreatedIds,
     open |-> Outstanding]

updateSneaker(id, patch) ==
    [kind |-> "update", state |-> "sent", ok |-> FALSE, userId |-> 0, id |-> id,
     body |-> patch, response |-> NoItem, list |-> <<>>,
     auth |-> UserIdOfToken(localStorage.access_token), after |-> CreatedIds,
     open |-> Outstanding]

\* destroy.sh when it is not running
ScriptIdle ==
    [pc |-> "idle", argv |-> <<>>, typed |-> <<>>, stdin |-> <<>>, ENV |-> <<>>,
     REPLY |-> <<>>, commands |-> <<>>, status |-> -1]

\* the detail view when it is not on screen
DetailIdle ==
    /\ sneaker = NoItem
    /\ detailIsLoading = FALSE
    /\ isEditing = FALSE
    /\ editForm = [value |-> EmptyFormValue, disabled |-> FALSE]
    /\ route = <<>>
    /\ routerUrl = <<>>

Pending(kind) ==
    { i \in 1..Len(requests) : requests[i].kind = kind /\ requests[i].state # "done" }

\* GET /api/sneakers?user_id=: the items of that owner, in insertion order
ServerList(r) ==
    /\ r \in 1..Len(requests)
    /\ requests[r].kind = "list" /\ requests[r].state = "sent"
    /\ requests' = [requests EXCEPT ![r].state = "answered", ![r].ok = TRUE,
                        ![r].list = SelectSeq(db, LAMBDA s : s.user_id = requests[r].userId)]
    /\ UNCHANGED <<script, loggedOut>>
    /\ lastOp' = [op |-> "serverList", req |-> r]
    /\ UNCHANGED <<viewVars, db, authVars, computedOut, detailVars>>

\* POST /api/sneakers: the server assigns the id and the owner (the user of the
\* bearer token) and stores the item; unauthenticated requests are rejected
ServerCreate(r) ==
    /\ r \in 1..Len(requests)
    /\ requests[r].kind = "create" /\ requests[r].state = "sent"
    /\ requests[r].auth # 0
    /\ LET b == requests[r].body
           item == [id |-> Len(db) + 1, sku |-> b.sku, brand |-> b.brand,
                    model |-> b.model, size |-> b.size, color |-> b.color,
                    purchase_price |-> b.purchase_price,
                    description |-> b.description, user_id |-> requests[r].auth]
       IN  /\ db' = Append(db, item)
           /\ requests' = [requests EXCEPT ![r].state = "answered", ![r].ok = TRUE,
                                           ![r].response = item]
    /\ UNCHANGED <<script, loggedOut>>
    /\ lastOp' = [op |-> "serverCreate", req |-> r]
    /\ UNCHANGED <<viewVars, authVars, computedOut, detailVars>>

\* any non-success response (rejection, 5xx, transport failure)
RequestFails(r) ==
    /\ r \in 1..Len(requests)
    /\ requests[r].state = "sent"
    /\ requests' = [requests EXCEPT ![r].state = "answered", ![r].ok = FALSE]
    /\ UNCHANGED <<script, loggedOut>>
    /\ lastOp' = [op |-> "requestFails", req |-> r]
    /\ UNCHANGED <<viewVars, db, authVars, computedOut, detailVars>>

----------------------------------------------------------------------------
(* InventoryComponent: the operations *)

\* Validators.required on a text control, required + min(0) on size, min(0) on
\* purchase_price
ValidatorsPass(v) ==
    /\ v.sku # <<>> /\ v.brand # <<>> /\ v.model # <<>>
    /\ v.size # NoNumber /\ v.size >= 0
    /\ (v.purchase_price = NoNumber \/ v.purchase_price >= 0)

\* FormGroup.valid: the status is VALID; a disabled group has status DISABLED
FormValid(form) == ~form.disabled /\ ValidatorsPass(form.value)

\* x || undefined
TextOrUndefined(x) == IF Truthy(x) THEN x ELSE Undefined
NumberOrUndefined(x) == IF x = NoNumber \/ x = 0 THEN NoNumber ELSE x

\* the SneakerCreate built from getRawValue()
NewSneaker(v) ==
    [sku |-> v.sku, brand |-> v.brand, model |-> v.model, size |-> v.size,
     color |-> TextOrUndefined(v.color),
     purchase_price |-> NumberOrUndefined(v.purchase_price),
     description |-> TextOrUndefined(v.description)]

\* values a user types into the create form: "d"/"Ab"/"C" size 9; "D"/"B"/"ab"
\* size 10 color "E" price 0; and one with no sku
FormInputs ==
    { [EmptyFormValue EXCEPT !.sku = <<100>>, !.brand = <<65, 98>>, !.model = <<67>>,
                             !.size = 90],
      [EmptyFormValue EXCEPT !.sku = <<68>>, !.brand = <<66>>, !.model = <<97, 98>>,
                             !.size = 100, !.color = <<69>>, !.purchase_price = 0],
      [EmptyFormValue EXCEPT !.brand = <<66>>, !.model = <<67>>, !.size = 85] }

\* filter criteria a user sets in the running view: ("b", "", ""), ("", "B", "10")
FilterInputs == { << <<98>>, <<>>, <<>> >>, << <<>>, <<66>>, <<49, 48>> >> }

\* the user fills in the create form (a disabled form takes no input)
EditForm(v) ==
    /\ initialised
    /\ ~sneakerForm.disabled
    /\ v \in FormInputs
    /\ sneakerForm' = [sneakerForm EXCEPT !.value = v]
    /\ UNCHANGED <<script, loggedOut>>
    /\ lastOp' = [op |-> "editForm"]
    /\ UNCHANGED <<sneakers, isLoading, searchText, selectedBrand, selectedSize,
                   initialised, netVars, authVars, computedOut, detailVars>>

\* the user types a search text and picks a brand and a size
SetFilters(f) ==
    /\ initialised
    /\ f \in FilterInputs
    /\ searchText' = f[1] /\ selectedBrand' = f[2] /\ selectedSize' = f[3]
    /\ UNCHANGED <<script, loggedOut>>
    /\ lastOp' = [op |-> "setFilters"]
    /\ UNCHANGED <<sneakers, isLoading, sneakerForm, initialised, netVars, authVars,
                   computedOut, detailVars>>

\* loadSneakers(): the requests in flight after the call
LoadSneakersRequests_anyUser(reqs) == Append(reqs, getSneakers(currentUserValue.id))

LoadSneakersRequests(reqs) ==
    IF currentUserValue # NoUser
    THEN Append(reqs, getSneakers(currentUserValue.id))
    ELSE reqs

ngOnInit ==
    /\ ~initialised
    /\ initialised' = TRUE
    /\ requests' = LoadSneakersRequests(requests)
    /\ UNCHANGED <<script, loggedOut>>
    /\ lastOp' = [op |-> "ngOnInit"]
    /\ UNCHANGED <<sneakers, isLoading, searchText, selectedBrand, selectedSize,
                   sneakerForm, db, authVars, computedOut, detailVars>>

loadSneakers ==
    /\ initialised
    /\ Len(requests) < MaxRequests
    /\ requests' = LoadSneakersRequests(requests)
    /\ UNCHANGED <<script, loggedOut>>
    /\ lastOp' = [op |-> "loadSneakers"]
    /\ UNCHANGED <<viewVars, db, authVars, computedOut, detailVars>>

\* next: (data) => this.sneakers.set(data)
LoadedAppended(current, data) == current \o data

Loaded(current, data) == data

loadSneakersNext(r) ==
    /\ r \in 1..Len(requests)
    /\ requests[r].kind = "list" /\ requests[r].state = "answered" /\ requests[r].ok
    /\ sneakers' = Loaded(sneakers, requests[r].list)
    /\ requests' = [requests EXCEPT ![r].state = "done"]
    /\ UNCHANGED <<script, loggedOut>>
    /\ lastOp' = [op |-> "loadSneakersNext", req |-> r]
    /\ UNCHANGED <<isLoading, searchText, selectedBrand, selectedSize, sneakerForm,
                   initialised, db, authVars, computedOut, detailVars>>

\* error: (err) => console.error(...)
loadSneakersError(r) ==
    /\ r \in 1..Len(requests)
    /\ requests[r].kind = "list" /\ requests[r].state = "answered" /\ ~requests[r].ok
    /\ requests' = [requests EXCEPT ![r].state = "done"]
    /\ UNCHANGED <<script, loggedOut>>
    /\ lastOp' = [op |-> "loadSneakersError", req |-> r]
    /\ UNCHANGED <<viewVars, db, authVars, computedOut, detailVars>>

\* if (this.sneakerForm.valid && !this.isLoading())
CanSubmitUnguarded(form, loading) == ValidatorsPass(form.value)

CanSubmit(form, loading) == FormValid(form) /\ ~loading

onSubmit ==
    /\ initialised
    /\ Len(requests) < MaxRequests
    /\ UNCHANGED <<script, loggedOut>>
    /\ lastOp' = [op |-> "onSubmit"]
    /\ IF CanSubmit(sneakerForm, isLoading)
       THEN /\ isLoading' = TRUE
            /\ sneakerForm' = [sneakerForm EXCEPT !.disabled = TRUE]
            /\ requests' = Append(requests, createSneaker(NewSneaker(sneakerForm.value)))
       ELSE UNCHANGED <<isLoading, sneakerForm, requests>>
    /\ UNCHANGED <<sneakers, searchText, selectedBrand, selectedSize, initialised, db,
                   authVars, computedOut, detailVars>>

\* this.sneakers.update(current => [...current, sneaker])
WithCreated_first(current, created) == <<created>> \o current

WithCreated(current, created) == Append(current, created)

\* next: (sneaker) => { update; reset(); enable(); isLoading.set(false) }
onSubmitNext(r) ==
    /\ r \in 1..Len(requests)
    /\ requests[r].kind = "create" /\ requests[r].state = "answered" /\ requests[r].ok
    /\ sneakers' = WithCreated(sneakers, requests[r].response)
    /\ sneakerForm' = [value |-> EmptyFormValue, disabled |-> FALSE]
    /\ isLoading' = FALSE
    /\ requests' = [requests EXCEPT ![r].state = "done"]
    /\ UNCHANGED <<script, loggedOut>>
    /\ lastOp' = [op |-> "onSubmitNext", req |-> r]
    /\ UNCHANGED <<searchText, selectedBrand, selectedSize, initialised, db, authVars,
                   computedOut, detailVars>>

\* this.sneakerForm.enable() in the error callback
FormAfterError_disabled(form) == form

FormAfterError_reset(form) == [value |-> EmptyFormValue, disabled |-> FALSE]

FormAfterError(form) == [form EXCEPT !.disabled = FALSE]

\* error: (err) => { console.error; enable(); isLoading.set(false) }
onSubmitError(r) ==
    /\ r \in 1..Len(requests)
    /\ requests[r].kind = "create" /\ requests[r].state = "answered" /\ ~requests[r].ok
    /\ sneakerForm' = FormAfterError(sneakerForm)
    /\ isLoading' = FALSE
    /\ requests' = [requests EXCEPT ![r].state = "done"]
    /\ UNCHANGED <<script, loggedOut>>
    /\ lastOp' = [op |-> "onSubmitError", req |-> r]
    /\ UNCHANGED <<sneakers, searchText, selectedBrand, selectedSize, initialised, db,
                   authVars, computedOut, detailVars>>

\* the three filter cells after clearFilters()
ClearedFilters_keepsSize(text, brand, size) == << <<>>, <<>>, size >>

ClearedFilters(text, brand, size) == << <<>>, <<>>, <<>> >>

clearFilters ==
    /\ initialised
    /\ LET cleared == ClearedFilters(searchText, selectedBrand, selectedSize)
       IN  /\ searchText' = cleared[1]
           /\ selectedBrand' = cleared[2]
           /\ selectedSize' = cleared[3]
    /\ UNCHANGED <<script, loggedOut>>
    /\ lastOp' = [op |-> "clearFilters",
                  narrowed |-> Len(filteredSneakers) < Len(sneakers)]
    /\ UNCHANGED <<sneakers, isLoading, sneakerForm, initialised, netVars, authVars,
                   computedOut, detailVars>>

\* the view is opened by a logged-in user (user 1) or with no session
InitInventory ==
    /\ ViewInit
    /\ NetInit
    /\ \/ /\ StorageInit
          /\ currentUserSubject = NoUser
       \/ /\ localStorage = [access_token |-> TokenOf(1),
                             currentUser |-> Stringify(UserById(1))]
          /\ currentUserSubject = UserById(1)
    /\ calls = <<>>
    /\ lastOp = [op |-> "init"]
    /\ computedOut = [name |-> "none"]
    /\ DetailIdle
    /\ script = ScriptIdle
    /\ loggedOut = FALSE

NextInventory ==
    \/ ngOnInit
    \/ loadSneakers
    \/ onSubmit
    \/ clearFilters
    \/ \E v \in FormInputs : EditForm(v)
    \/ \E f \in FilterInputs : SetFilters(f)
    \/ \E r \in 1..MaxRequests :
           \/ ServerList(r)
           \/ ServerCreate(r)
           \/ RequestFails(r)
           \/ loadSneakersNext(r)
           \/ loadSneakersError(r)
           \/ onSubmitNext(r)
           \/ onSubmitError(r)

SpecInventory == InitInventory /\ [][NextInventory]_vars

\* the server answers request r (success or failure)
Responds(r) == ServerList(r) \/ ServerCreate(r) \/ RequestFails(r)

\* the subscriber of request r runs (next or error callback)
Delivers(r) ==
    loadSneakersNext(r) \/ loadSneakersError(r) \/ onSubmitNext(r) \/ onSubmitError(r)

\* every request is answered and every answer is delivered to its subscriber
SpecInventoryLive ==
    /\ SpecInventory
    /\ \A r \in 1..MaxRequests : WF_vars(Responds(r)) /\ WF_vars(Delivers(r))

----------------------------------------------------------------------------
(* SneakerDetailComponent *)

\* path segments: "sneaker", "edit", "inventory"
SegSneaker == <<115, 110, 101, 97, 107, 101, 114>>
SegEdit == <<101, 100, 105, 116>>
InventoryUrl == << <<105, 110, 118, 101, 110, 116, 111, 114, 121>> >>

\* navigated paths: /sneaker/1, /sneaker/1/edit, /sneaker/2, /sneaker/2/edit,
\* /sneaker/9, /sneaker/edit
Routes ==
    { <<SegSneaker, <<49>>>>, <<SegSneaker, <<49>>, SegEdit>>,
      <<SegSneaker, <<50>>>>, <<SegSneaker, <<50>>, SegEdit>>,
      <<SegSneaker, <<57>>>>, <<SegSneaker, SegEdit>> }

\* the items the server holds when the detail view opens: item 1 without
\* optional fields, item 2 with color "E" and purchase_price 0
DetailDb ==
    << Item(1, <<100>>, <<65, 98>>, <<67>>, 90, Undefined),
       [Item(2, <<68>>, <<66>>, <<97, 98>>, 100, <<69>>) EXCEPT !.purchase_price = 0] >>

\* this.route.snapshot.paramMap.get('id') for the routes sneaker/:id(/edit)
IdParam == route[2]

\* parseInt: the leading digits, NaN (equal to no id) when there are none
ParseInt(s) ==
    LET run == DigitRun(s, 1, [val |-> 0, len |-> 0])
    IN  IF run.len = 0 THEN NoNumber ELSE run.val

\* urlSegments.some(segment => segment.path === 'edit')
IsEditRoute_secondSegment(url) == Len(url) >= 2 /\ url[2] = SegEdit

IsEditRoute(url) == \E i \in 1..Len(url) : url[i] = SegEdit

\* the component is on screen: the router has not been sent elsewhere
OnScreen == initialised /\ routerUrl = route

\* editForm.patchValue({...}) of populateForm
populateForm(form, s) ==
    [form EXCEPT !.value =
        [sku |-> s.sku, brand |-> s.brand, model |-> s.model, size |-> s.size,
         color |-> IF Truthy(s.color) THEN s.color ELSE <<>>,
         purchase_price |-> IF s.purchase_price = NoNumber \/ s.purchase_price = 0
                            THEN NoNumber ELSE s.purchase_price,
         description |-> IF Truthy(s.description) THEN s.description ELSE <<>>]]

\* ngOnInit(): the edit flag from the URL, then loadSneaker(parseInt(id))
detailNgOnInit ==
    /\ ~initialised
    /\ route # <<>>
    /\ initialised' = TRUE
    /\ isEditing' = IF IsEditRoute(route) THEN TRUE ELSE isEditing
    /\ IF Truthy(IdParam)
       THEN /\ detailIsLoading' = TRUE
            /\ requests' = IF currentUserValue # NoUser
                           THEN Append(requests, getSneakers(currentUserValue.id))
                           ELSE requests
       ELSE UNCHANGED <<detailIsLoading, requests>>
    /\ UNCHANGED <<script, loggedOut>>
    /\ lastOp' = [op |-> "detailNgOnInit"]
    /\ UNCHANGED <<sneakers, isLoading, searchText, selectedBrand, selectedSize,
                   sneakerForm, db, authVars, computedOut, sneaker, editForm, route,
                   routerUrl>>

\* sneakers.find(s => s.id === id): the position of the first match, 0 for none
FindById(list, id) ==
    IF \E k \in 1..Len(list) : list[k].id = id
    THEN CHOOSE k \in 1..Len(list) :
            list[k].id = id /\ \A h \in 1..(k - 1) : list[h].id # id
    ELSE 0

\* next of loadSneaker: hold the item and fill the form, or go to the list
loadSneakerNext(r) ==
    /\ r \in 1..Len(requests)
    /\ requests[r].kind = "list" /\ requests[r].state = "answered" /\ requests[r].ok
    /\ LET k == FindById(requests[r].list, ParseInt(IdParam))
       IN  /\ IF k # 0
              THEN /\ sneaker' = requests[r].list[k]
                   /\ editForm' = populateForm(editForm, requests[r].list[k])
                   /\ UNCHANGED routerUrl
              ELSE /\ routerUrl' = InventoryUrl
                   /\ UNCHANGED <<sneaker, editForm>>
           /\ UNCHANGED <<script, loggedOut>>
           /\ lastOp' = [op |-> "loadSneakerNext", req |-> r, found |-> k # 0]
    /\ detailIsLoading' = FALSE
    /\ requests' = [requests EXCEPT ![r].state = "done"]
    /\ UNCHANGED <<viewVars, db, authVars, computedOut, isEditing, route>>

\* error of loadSneaker: isLoading.set(false); navigate(['/inventory'])
AfterLoadError_stays(url) == url

AfterLoadError(url) == InventoryUrl

loadSneakerError(r) ==
    /\ r \in 1..Len(requests)
    /\ requests[r].kind = "list" /\ requests[r].state = "answered" /\ ~requests[r].ok
    /\ detailIsLoading' = FALSE
    /\ routerUrl' = AfterLoadError(routerUrl)
    /\ requests' = [requests EXCEPT ![r].state = "done"]
    /\ UNCHANGED <<script, loggedOut>>
    /\ lastOp' = [op |-> "loadSneakerError", req |-> r]
    /\ UNCHANGED <<viewVars, db, authVars, computedOut, sneaker, isEditing, editForm,
                   route>>

\* toggleEdit(): flip, and refill the form when the view leaves edit mode
toggleEdit ==
    /\ OnScreen
    /\ isEditing' = ~isEditing
    /\ editForm' = IF ~isEditing' /\ sneaker.id # 0
                   THEN populateForm(editForm, sneaker)
                   ELSE editForm
    /\ UNCHANGED <<script, loggedOut>>
    /\ lastOp' = [op |-> "toggleEdit"]
    /\ UNCHANGED <<viewVars, netVars, authVars, computedOut, sneaker, detailIsLoading,
                   route, routerUrl>>

\* the user changes the fields of the edit form, shown in edit mode
EditDetailForm(v) ==
    /\ OnScreen
    /\ isEditing /\ sneaker.id # 0
    /\ ~editForm.disabled
    /\ v \in FormInputs
    /\ editForm' = [editForm EXCEPT !.value = v]
    /\ UNCHANGED <<script, loggedOut>>
    /\ lastOp' = [op |-> "editDetailForm"]
    /\ UNCHANGED <<viewVars, netVars, authVars, computedOut, sneaker, detailIsLoading,
                   isEditing, route, routerUrl>>

\* the SneakerUpdate built from getRawValue()
UpdateData(v) ==
    [sku |-> v.sku, brand |-> v.brand, model |-> v.model, size |-> v.size,
     color |-> TextOrUndefined(v.color),
     purchase_price |-> NumberOrUndefined(v.purchase_price),
     description |-> TextOrUndefined(v.description)]

\* if (this.editForm.valid && this.sneaker() && !this.isLoading())
CanUpdate_unguarded(form, held, loading) == ValidatorsPass(form.value) /\ held.id # 0

CanUpdate(form, held, loading) == FormValid(form) /\ held.id # 0 /\ ~loading

detailOnSubmit ==
    /\ OnScreen
    /\ Len(requests) < MaxRequests
    /\ UNCHANGED <<script, loggedOut>>
    /\ lastOp' = [op |-> "detailOnSubmit"]
    /\ IF CanUpdate(editForm, sneaker, detailIsLoading)
       THEN /\ detailIsLoading' = TRUE
            /\ editForm' = [editForm EXCEPT !.disabled = TRUE]
            /\ requests' = Append(requests,
                                  updateSneaker(sneaker.id, UpdateData(editForm.value)))
       ELSE UNCHANGED <<detailIsLoading, editForm, requests>>
    /\ UNCHANGED <<viewVars, db, authVars, computedOut, sneaker, isEditing, route,
                   routerUrl>>

\* this.isEditing.set(false) in the next callback of the update
EditingAfterUpdate_kept(editing) == editing

EditingAfterUpdate(editing) == FALSE

\* next: (updatedSneaker) => { sneaker.set; enable(); isEditing.set(false); ... }
updateNext(r) ==
    /\ r \in 1..Len(requests)
    /\ requests[r].kind = "update" /\ requests[r].state = "answered" /\ requests[r].ok
    /\ sneaker' = requests[r].response
    /\ editForm' = [editForm EXCEPT !.disabled = FALSE]
    /\ isEditing' = EditingAfterUpdate(isEditing)
    /\ detailIsLoading' = FALSE
    /\ requests' = [requests EXCEPT ![r].state = "done"]
    /\ UNCHANGED <<script, loggedOut>>
    /\ lastOp' = [op |-> "updateNext", req |-> r, wasEditing |-> isEditing]
    /\ UNCHANGED <<viewVars, db, authVars, computedOut, route, routerUrl>>

\* this.editForm.enable() in the error callback
EditFormAfterError_cleared(form) == [value |-> EmptyFormValue, disabled |-> FALSE]

EditFormAfterError(form) == [form EXCEPT !.disabled = FALSE]

\* error: (err) => { console.error; enable(); isLoading.set(false) }
updateError(r) ==
    /\ r \in 1..Len(requests)
    /\ requests[r].kind = "update" /\ requests[r].state = "answered" /\ ~requests[r].ok
    /\ editForm' = EditFormAfterError(editForm)
    /\ detailIsLoading' = FALSE
    /\ requests' = [requests EXCEPT ![r].state = "done"]
    /\ UNCHANGED <<script, loggedOut>>
    /\ lastOp' = [op |-> "updateError", req |-> r]
    /\ UNCHANGED <<viewVars, db, authVars, computedOut, sneaker, isEditing, route,
                   routerUrl>>

\* goBack(): navigate(['/inventory'])
goBack ==
    /\ OnScreen
    /\ routerUrl' = InventoryUrl
    /\ UNCHANGED <<script, loggedOut>>
    /\ lastOp' = [op |-> "goBack"]
    /\ UNCHANGED <<viewVars, netVars, authVars, computedOut, sneaker, detailIsLoading,
                   isEditing, editForm, route>>

\* a field of the stored item after a partial update: a field the payload
\* leaves out keeps its value
PatchedText(old, sent) == IF sent = Undefined THEN old ELSE sent

PatchedNumber(old, sent) == IF sent = NoNumber THEN old ELSE sent

\* PUT /api/sneakers/{id}: the provided fields replace the stored ones and the
\* full item is returned; an unknown id or an unauthenticated request is rejected
ServerUpdate(r) ==
    /\ r \in 1..Len(requests)
    /\ requests[r].kind = "update" /\ requests[r].state = "sent"
    /\ requests[r].auth # 0
    /\ \E k \in 1..Len(db) :
          /\ db[k].id = requests[r].id
          /\ LET b == requests[r].body
                 item == [db[k] EXCEPT
                            !.sku = PatchedText(@, b.sku),
                            !.brand = PatchedText(@, b.brand),
                            !.model = PatchedText(@, b.model),
                            !.size = PatchedNumber(@, b.size),
                            !.color = PatchedText(@, b.color),
                            !.purchase_price = PatchedNumber(@, b.purchase_price),
                            !.description = PatchedText(@, b.description)]
             IN  /\ db' = [db EXCEPT ![k] = item]
                 /\ requests' = [requests EXCEPT ![r].state = "answered",
                                                 ![r].ok = TRUE, ![r].response = item]
    /\ UNCHANGED <<script, loggedOut>>
    /\ lastOp' = [op |-> "serverUpdate", req |-> r]
    /\ UNCHANGED <<viewVars, authVars, computedOut, detailVars>>

\* the detail view is opened on one of the routes, by user 1 or with no session
InitDetail ==
    /\ ViewInit
    /\ requests = <<>>
    /\ db = DetailDb
    /\ \/ /\ StorageInit
          /\ currentUserSubject = NoUser
       \/ /\ localStorage = [access_token |-> TokenOf(1),
                             currentUser |-> Stringify(UserById(1))]
          /\ currentUserSubject = UserById(1)
    /\ calls = <<>>
    /\ lastOp = [op |-> "init"]
    /\ computedOut = [name |-> "none"]
    /\ sneaker = NoItem
    /\ detailIsLoading = FALSE
    /\ isEditing = FALSE
    /\ editForm = [value |-> EmptyFormValue, disabled |-> FALSE]
    /\ route \in Routes
    /\ routerUrl = route
    /\ script = ScriptIdle
    /\ loggedOut = FALSE

NextDetail ==
    \/ detailNgOnInit
    \/ toggleEdit
    \/ detailOnSubmit
    \/ goBack
    \/ \E v \in FormInputs : EditDetailForm(v)
    \/ \E r \in 1..MaxRequests :
           \/ ServerList(r)
           \/ ServerUpdate(r)
           \/ RequestFails(r)
           \/ loadSneakerNext(r)
           \/ loadSneakerError(r)
           \/ updateNext(r)
           \/ updateError(r)

SpecDetail == InitDetail /\ [][NextDetail]_vars

\* the server answers request r of the detail view (success or failure)
DetailResponds(r) == ServerList(r) \/ ServerUpdate(r) \/ RequestFails(r)

\* the subscriber of request r runs (next or error callback)
DetailDelivers(r) ==
    loadSneakerNext(r) \/ loadSneakerError(r) \/ updateNext(r) \/ updateError(r)

\* every request is answered and every answer is delivered to its subscriber
SpecDetailLive ==
    /\ SpecDetail
    /\ \A r \in 1..MaxRequests : WF_vars(DetailResponds(r)) /\ WF_vars(DetailDelivers(r))

----------------------------------------------------------------------------
(* Properties of the Item Detail view-state *)

\* the id the view was opened for
RequestedId == ParseInt(IdParam)

\* the step delivers a successful list response that lacks the requested id
LoadNotFoundStep ==
    /\ lastOp'.op = "loadSneakerNext"
    /\ \A k \in 1..Len(requests[lastOp'.req].list) :
           requests[lastOp'.req].list[k].id # RequestedId

\* the step delivers the failure of the list request
LoadFailedStep == lastOp'.op = "loadSneakerError"

\* C15: when the list fetched on load does not contain the requested id, or
\* the fetch fails, the view redirects to the inventory list, holds no item and
\* ends with isLoading false; both cases leave the view in the same state (the
\* mode and the edit form are as they were).
C15_LoadMissOrFailureRedirects ==
    [][(LoadNotFoundStep \/ LoadFailedStep)
          => /\ routerUrl' = InventoryUrl
             /\ sneaker'.id = 0
             /\ detailIsLoading' = FALSE
             /\ isEditing' = isEditing
             /\ editForm' = editForm]_vars

C15_Witness ==
    /\ lastOp.op = "loadSneakerNext"
    /\ requests[lastOp.req].list # <<>>
    /\ \A k \in 1..Len(requests[lastOp.req].list) :
           requests[lastOp.req].list[k].id # RequestedId
    /\ routerUrl = InventoryUrl
    /\ sneaker.id = 0
    /\ ~detailIsLoading

\* the navigated path has a segment "edit"
PathHasEditSegment == SegEdit \in { route[i] : i \in 1..Len(route) }

\* C16: the view starts in Editing exactly when the navigated path contains an
\* edit segment and in Viewing otherwise, and the completion of the load (found,
\* not found or failed) does not change the mode.
C16_ModeFromRoute ==
    /\ [](lastOp.op = "detailNgOnInit" => (isEditing <=> PathHasEditSegment))
    /\ [][lastOp'.op \in {"loadSneakerNext", "loadSneakerError"}
             => isEditing' = isEditing]_vars

C16_Witness ==
    /\ lastOp.op = "loadSneakerNext"
    /\ PathHasEditSegment
    /\ Len(route) = 3
    /\ sneaker.id = RequestedId
    /\ isEditing

\* an optional text field as a form shows it: empty when the item lacks it
FieldOrEmpty(text) == IF text = Undefined \/ text = Null THEN <<>> ELSE text

\* the form value that shows every field of the held item
HeldItemAsForm ==
    [sku |-> sneaker.sku, brand |-> sneaker.brand, model |-> sneaker.model,
     size |-> sneaker.size, color |-> FieldOrEmpty(sneaker.color),
     purchase_price |-> sneaker.purchase_price,
     description |-> FieldOrEmpty(sneaker.description)]

\* C17: toggleEdit() flips the edit-mode flag every time it is called; when it
\* takes the view from Editing to Viewing while an item is held, every edit-form
\* field is reset to the corresponding field of the held item (absent optional
\* fields become empty), and the held item itself is unchanged.
C17_ToggleEditFlipsAndRestores ==
    [][lastOp'.op = "toggleEdit"
          => /\ isEditing' = ~isEditing
             /\ sneaker' = sneaker
             /\ (isEditing /\ sneaker.id # 0) => editForm'.value = HeldItemAsForm]_vars

\* C18: when an update request succeeds, the held item becomes exactly the
\* item the server returned, the mode becomes Viewing whatever it was when the
\* response arrived, the edit form is enabled and isLoading is false.
C18_UpdateSuccessShowsServerItem ==
    [][lastOp'.op = "updateNext"
          => /\ requests[lastOp'.req].kind = "update"
             /\ requests[lastOp'.req].ok
             /\ sneaker' = requests[lastOp'.req].response
             /\ isEditing' = FALSE
             /\ editForm'.disabled = FALSE
             /\ detailIsLoading' = FALSE]_vars

C18_Witness ==
    /\ lastOp.op = "updateNext"
    /\ lastOp.wasEditing
    /\ sneaker = requests[lastOp.req].response
    /\ sneaker.id = 1 /\ sneaker.sku = DetailDb[2].sku
    /\ ~isEditing

\* the update requests that are not yet done
OutstandingUpdates == { r \in Outstanding : requests[r].kind = "update" }

\* C19: submit() issues an update only when the form is valid, an item is held
\* and isLoading is false; while the initial load or an earlier update is
\* outstanding a submit() changes nothing, so at most one update request is
\* outstanding at any time and none is issued without a loaded item.
C19_UpdateGuard ==
    /\ [](/\ Cardinality(OutstandingUpdates) <= 1
          /\ \A r \in 1..Len(requests) :
                requests[r].kind = "update" => requests[r].id = RequestedId)
    /\ [][/\ Len(requests') > Len(requests) /\ lastOp'.op = "detailOnSubmit"
             => /\ ValidatorsPass(editForm.value) /\ ~editForm.disabled
                /\ sneaker.id # 0
                /\ ~detailIsLoading
                /\ Outstanding = {}
          /\ (lastOp'.op = "detailOnSubmit" /\ Outstanding # {})
             => UNCHANGED <<requests, db, detailVars>>]_vars

C19_Witness ==
    /\ lastOp.op = "detailOnSubmit"
    /\ Cardinality(OutstandingUpdates) = 1
    /\ \E r \in OutstandingUpdates : requests[r].state = "answered"
    /\ detailIsLoading

\* C23: when an update request fails, the held item and the edit mode are
\* unchanged, the edit form is enabled again with the values the user entered,
\* isLoading is false and no retry request is issued.
C23_UpdateFailureKeepsEdits ==
    [][lastOp'.op = "updateError"
          => /\ requests[lastOp'.req].kind = "update"
             /\ ~requests[lastOp'.req].ok
             /\ sneaker' = sneaker
             /\ isEditing' = isEditing
             /\ editForm'.value = editForm.value
             /\ editForm'.disabled = FALSE
             /\ detailIsLoading' = FALSE
             /\ Len(requests') = Len(requests)
             /\ Outstanding' = Outstanding \ {lastOp'.req}]_vars

C23_Witness ==
    /\ lastOp.op = "updateError"
    /\ isEditing
    /\ sneaker.id # 0
    /\ editForm.value.sku # sneaker.sku
    /\ ~editForm.disabled
    /\ ~detailIsLoading
    /\ Outstanding = {}

\* C28: the view never stays in Loading forever: when every request completes,
\* every call of the load operation (which sets isLoading) is eventually
\* followed by a state with isLoading false, whether or not a current user
\* exists.
C28_LoadingEnds ==
    (lastOp.op = "detailNgOnInit" /\ detailIsLoading) ~> ~detailIsLoading

\* C29: whenever the view holds an item, is in Viewing mode and has no request
\* outstanding, every edit-form field equals the corresponding field of the
\* held item (absent optional fields shown as empty).
C29_ViewingFormShowsItem ==
    (sneaker.id # 0 /\ ~isEditing /\ Outstanding = {}) => editForm.value = HeldItemAsForm

----------------------------------------------------------------------------
(* AuthService *)

\* constructor: storedUser ? JSON.parse(storedUser) : null
StoredUser(store) ==
    IF Truthy(store.currentUser) THEN Parse(store.currentUser) ELSE NoUser

\* isAuthenticated(): !!localStorage.getItem('access_token')
isAuthenticated == Truthy(localStorage.access_token)

\* an HTTP request of the AuthService
AuthRequest(url, email, password, bearer) ==
    [url |-> url, email |-> email, password |-> password, bearer |-> bearer]

\* this.http.post(`${apiUrl}/auth/login`, formData): username = email
LoginRequest(email, password) == AuthRequest("login", email, password, Undefined)

\* credentials a user enters: ("a", "p"), ("b", "q"), ("ab", "p")
Credentials ==
    { [email |-> <<97>>, password |-> <<112>>],
      [email |-> <<98>>, password |-> <<113>>],
      [email |-> <<97, 98>>, password |-> <<112>>] }

\* the token the login endpoint issues for an account
TokenForEmail(email) == TokenOf((CHOOSE u \in Users : u.email = email).id)

\* what a login response holds as access_token: the account's token, or
\* nothing (undefined, '')
LoginTokens(email) == { TokenForEmail(email), Undefined, <<>> }

\* GET /api/users/me: the profile of the user the bearer token authenticates
ProfileOfBearer(bearer) == UserById(UserIdOfToken(bearer))

AllLoginTokens == UNION { LoginTokens(data.email) : data \in Credentials }

Call(op, pc, data, sent) ==
    [op |-> op, pc |-> pc, email |-> data.email, password |-> data.password,
     sent |-> sent, token |-> Undefined, result |-> NoUser]

\* login(email, password), subscribed
login(data) ==
    /\ Len(calls) < MaxCalls
    /\ data \in Credentials
    /\ calls' = Append(calls, Call("login", "login", data,
                                   <<LoginRequest(data.email, data.password)>>))
    /\ UNCHANGED script
    /\ loggedOut' = FALSE
    /\ lastOp' = [op |-> "login", call |-> Len(calls) + 1]
    /\ UNCHANGED <<viewVars, netVars, localStorage, currentUserSubject, computedOut, detailVars>>

\* the requests signup() has issued when it returns
SignupRequests_eager(data) ==
    << AuthRequest("register", data.email, data.password, Undefined),
       LoginRequest(data.email, data.password) >>

SignupRequests(data) == << AuthRequest("register", data.email, data.password, Undefined) >>

\* signup(data), subscribed
signup(data) ==
    /\ Len(calls) < MaxCalls
    /\ data \in Credentials
    /\ calls' = Append(calls, Call("signup", "register", data, SignupRequests(data)))
    /\ UNCHANGED script
    /\ loggedOut' = FALSE
    /\ lastOp' = [op |-> "signup", call |-> Len(calls) + 1]
    /\ UNCHANGED <<viewVars, netVars, localStorage, currentUserSubject, computedOut, detailVars>>

\* the registration succeeded: switchMap(() => this.login(data.email, data.password))
signupNext(c) ==
    /\ c \in 1..Len(calls)
    /\ calls[c].pc = "register"
    /\ calls' = [calls EXCEPT ![c].pc = "login",
                              ![c].sent = Append(@, LoginRequest(calls[c].email,
                                                                 calls[c].password))]
    /\ UNCHANGED <<script, loggedOut>>
    /\ lastOp' = [op |-> "signupNext", call |-> c]
    /\ UNCHANGED <<viewVars, netVars, localStorage, currentUserSubject, computedOut, detailVars>>

\* the registration failed: the error goes to the subscriber
signupError(c) ==
    /\ c \in 1..Len(calls)
    /\ calls[c].pc = "register"
    /\ calls' = [calls EXCEPT ![c].pc = "error"]
    /\ UNCHANGED <<script, loggedOut>>
    /\ lastOp' = [op |-> "signupError", call |-> c]
    /\ UNCHANGED <<viewVars, netVars, localStorage, currentUserSubject, computedOut, detailVars>>

\* if (response.access_token) localStorage.setItem('access_token', ...)
StoreToken_unchecked(store, token) == [store EXCEPT !.access_token = token]

StoreToken(store, token) ==
    IF Truthy(token) THEN [store EXCEPT !.access_token = token] ELSE store

\* 'Authorization': `Bearer ${localStorage.getItem('access_token')}`, read when
\* getUserProfile() is called, after the setItem
BearerHeader_early(before, after) == before.access_token

BearerHeader(before, after) == after.access_token

\* the login endpoint answered: the switchMap callback of login()
loginNext(c, token) ==
    /\ c \in 1..Len(calls)
    /\ calls[c].pc = "login"
    /\ token \in LoginTokens(calls[c].email)
    /\ localStorage' = StoreToken(localStorage, token)
    /\ IF Truthy(token)
       THEN calls' = [calls EXCEPT
                ![c].pc = "profile",
                ![c].token = token,
                ![c].sent = Append(@, AuthRequest("profile", Undefined, Undefined,
                                          BearerHeader(localStorage, localStorage')))]
       ELSE calls' = [calls EXCEPT ![c].pc = "error", ![c].token = token]
    /\ UNCHANGED <<script, loggedOut>>
    /\ lastOp' = [op |-> "loginNext", call |-> c, token |-> token]
    /\ UNCHANGED <<viewVars, netVars, currentUserSubject, computedOut, detailVars>>

\* the login endpoint rejected the credentials (or the request failed)
loginError(c) ==
    /\ c \in 1..Len(calls)
    /\ calls[c].pc = "login"
    /\ calls' = [calls EXCEPT ![c].pc = "error"]
    /\ UNCHANGED <<script, loggedOut>>
    /\ lastOp' = [op |-> "loginError", call |-> c]
    /\ UNCHANGED <<viewVars, netVars, localStorage, currentUserSubject, computedOut, detailVars>>

\* tap(user => { localStorage.setItem('currentUser', ...); subject.next(user) })
StoreUser(store, user) == [store EXCEPT !.currentUser = Stringify(user)]

getUserProfileNext(c) ==
    /\ c \in 1..Len(calls)
    /\ calls[c].pc = "profile"
    /\ UserIdOfToken(calls[c].sent[Len(calls[c].sent)].bearer) # 0
    /\ LET user == ProfileOfBearer(calls[c].sent[Len(calls[c].sent)].bearer)
       IN  /\ localStorage' = StoreUser(localStorage, user)
           /\ currentUserSubject' = user
           /\ calls' = [calls EXCEPT ![c].pc = "done", ![c].result = user]
    /\ UNCHANGED <<script, loggedOut>>
    /\ lastOp' = [op |-> "getUserProfileNext", call |-> c]
    /\ UNCHANGED <<viewVars, netVars, computedOut, detailVars>>

\* the profile request failed: the error goes to the subscriber
getUserProfileError(c) ==
    /\ c \in 1..Len(calls)
    /\ calls[c].pc = "profile"
    /\ calls' = [calls EXCEPT ![c].pc = "error"]
    /\ UNCHANGED <<script, loggedOut>>
    /\ lastOp' = [op |-> "getUserProfileError", call |-> c]
    /\ UNCHANGED <<viewVars, netVars, localStorage, currentUserSubject, computedOut, detailVars>>

\* removeItem('access_token'); removeItem('currentUser')
StorageAfterLogout_keepsUser(store) == [store EXCEPT !.access_token = Null]

StorageAfterLogout_keepsToken(store) == [store EXCEPT !.currentUser = Null]

StorageAfterLogout(store) == [access_token |-> Null, currentUser |-> Null]

logout ==
    /\ localStorage' = StorageAfterLogout(localStorage)
    /\ currentUserSubject' = NoUser
    /\ UNCHANGED script
    /\ loggedOut' = TRUE
    /\ lastOp' = [op |-> "logout", hadUser |-> currentUserSubject # NoUser,
                  hadToken |-> isAuthenticated]
    /\ UNCHANGED <<viewVars, netVars, calls, computedOut, detailVars>>

\* the page is reloaded: the running subscriptions are gone and a new
\* AuthService is constructed over the same localStorage
constructor ==
    /\ currentUserSubject' = StoredUser(localStorage)
    /\ calls' = [c \in 1..Len(calls) |->
                    IF calls[c].pc \in {"register", "login", "profile"}
                    THEN [calls[c] EXCEPT !.pc = "dropped"]
                    ELSE calls[c]]
    /\ UNCHANGED <<script, loggedOut>>
    /\ lastOp' = [op |-> "constructor", before |-> currentUserSubject]
    /\ UNCHANGED <<viewVars, netVars, localStorage, computedOut, detailVars>>

InitAuth ==
    /\ ViewInit
    /\ NetInit
    /\ StorageInit
    /\ currentUserSubject = StoredUser(localStorage)
    /\ calls = <<>>
    /\ lastOp = [op |-> "init"]
    /\ computedOut = [name |-> "none"]
    /\ DetailIdle
    /\ script = ScriptIdle
    /\ loggedOut = FALSE

NextAuth ==
    \/ \E data \in Credentials : login(data)
    \/ \E data \in Credentials : signup(data)
    \/ logout
    \/ constructor
    \/ \E c \in 1..MaxCalls :
           \/ signupNext(c)
           \/ signupError(c)
           \/ \E token \in AllLoginTokens : loginNext(c, token)
           \/ loginError(c)
           \/ getUserProfileNext(c)
           \/ getUserProfileError(c)

SpecAuth == InitAuth /\ [][NextAuth]_vars

----------------------------------------------------------------------------
(* Properties of the Auth session store *)

\* C3: a logout() step, from any state, leaves both persisted keys absent and the
\* session cell empty, so that currentUser() is null and isAuthenticated() is
\* false right after it; it issues no request.
C3_LogoutClearsSession ==
    [][lastOp'.op = "logout" =>
          /\ localStorage'.access_token = Null
          /\ localStorage'.currentUser = Null
          /\ currentUserValue' = NoUser
          /\ ~isAuthenticated'
          /\ calls' = calls]_vars

\* logout() was called while a user was logged in
C3_Witness ==
    /\ lastOp.op = "logout"
    /\ lastOp.hadUser /\ lastOp.hadToken
    /\ currentUserValue = NoUser

\* the position of the login request among the requests of a call
LoginIndex(c) == IF calls[c].op = "signup" THEN 2 ELSE 1

\* C4: a login sends the login request first; the step that handles its answer
\* persists the returned token under access_token and issues the profile request
\* carrying that token; the step that handles the profile persists it under
\* currentUser and publishes it, so that currentUser() is the fetched profile
\* when the login completes.
C4_LoginOrder ==
    /\ [](\A c \in 1..Len(calls) :
            LET k == LoginIndex(c) IN
            /\ calls[c].pc = "login" =>
                  Len(calls[c].sent) = k /\ calls[c].sent[k].url = "login"
            /\ calls[c].pc \in {"profile", "done"} =>
                  /\ Len(calls[c].sent) = k + 1
                  /\ calls[c].sent[k].url = "login"
                  /\ calls[c].sent[k + 1].url = "profile"
                  /\ Truthy(calls[c].token)
                  /\ calls[c].sent[k + 1].bearer = calls[c].token)
    /\ [][\A c \in 1..Len(calls) :
            /\ (calls[c].pc = "login" /\ calls'[c].pc = "profile") =>
                  /\ localStorage'.access_token = calls'[c].token
                  /\ localStorage'.currentUser = localStorage.currentUser
                  /\ currentUserValue' = currentUserValue
            /\ (calls[c].pc = "profile" /\ calls'[c].pc = "done") =>
                  /\ calls'[c].result = ProfileOfBearer(calls[c].token)
                  /\ localStorage'.currentUser = Stringify(calls'[c].result)
                  /\ currentUserValue' = calls'[c].result]_vars

\* a login() completed while another user's session was stored
C4_Witness ==
    /\ lastOp.op = "getUserProfileNext"
    /\ calls[lastOp.call].op = "login"
    /\ calls[lastOp.call].pc = "done"
    /\ currentUserValue = calls[lastOp.call].result
    /\ \E d \in 1..Len(calls) :
          calls[d].pc = "done" /\ calls[d].result # calls[lastOp.call].result

\* C5: when the login endpoint rejects the credentials or answers without an
\* access token, the login ends in an error; that step persists no token and no
\* profile, issues no profile request and leaves the session cell as it is.
C5_LoginFailure ==
    [][(\/ lastOp'.op = "loginError"
        \/ (lastOp'.op = "loginNext" /\ ~Truthy(lastOp'.token))) =>
          /\ calls'[lastOp'.call].pc = "error"
          /\ calls'[lastOp'.call].sent = calls[lastOp'.call].sent
          /\ \A i \in 1..Len(calls'[lastOp'.call].sent) :
                calls'[lastOp'.call].sent[i].url # "profile"
          /\ UNCHANGED <<localStorage, currentUserSubject>>]_vars

\* a login answered without a token while a session was stored
C5_Witness ==
    /\ lastOp.op = "loginNext"
    /\ ~Truthy(lastOp.token)
    /\ calls[lastOp.call].pc = "error"
    /\ currentUserValue # NoUser

\* C6: signup() sends the registration request alone; the login request, with
\* the same email and password, is sent only by the step that handles the
\* successful registration; a failed registration ends the call with no login
\* request and changes neither the persisted keys nor the session cell.
C6_SignupThenLogin ==
    /\ [](\A c \in 1..Len(calls) :
            calls[c].op = "signup" =>
                /\ calls[c].sent[1].url = "register"
                /\ calls[c].sent[1].email = calls[c].email
                /\ calls[c].sent[1].password = calls[c].password
                /\ (calls[c].pc = "register" => Len(calls[c].sent) = 1)
                /\ (Len(calls[c].sent) >= 2 =>
                      /\ calls[c].sent[2].url = "login"
                      /\ calls[c].sent[2].email = calls[c].sent[1].email
                      /\ calls[c].sent[2].password = calls[c].sent[1].password))
    /\ [][/\ \A c \in 1..Len(calls) :
                /\ (calls[c].op = "signup" /\ Len(calls'[c].sent) > 1
                        /\ Len(calls[c].sent) = 1) =>
                      lastOp' = [op |-> "signupNext", call |-> c]
                /\ calls[c].pc = "error" => calls'[c] = calls[c]
          /\ lastOp'.op = "signupError" =>
                /\ calls'[lastOp'.call].pc = "error"
                /\ Len(calls'[lastOp'.call].sent) = 1
                /\ UNCHANGED <<localStorage, currentUserSubject>>]_vars

\* a signup() went through registration, login and profile
C6_Witness ==
    \E c \in 1..Len(calls) :
        /\ calls[c].op = "signup"
        /\ calls[c].pc = "done"
        /\ Len(calls[c].sent) = 3

\* C7: the session cell always equals what a newly constructed AuthService reads
\* from localStorage, and a reload leaves currentUser() as it was.
C7_SessionSurvivesReload ==
    /\ currentUserValue = StoredUser(localStorage)
    /\ (lastOp.op = "constructor" => currentUserValue = lastOp.before)

\* a reload with the session of the user that has a middle name
C7_Witness ==
    /\ lastOp.op = "constructor"
    /\ currentUserValue # NoUser
    /\ Truthy(currentUserValue.middle_name)

\* no user in the session cell and neither key in durable storage
SessionEmpty ==
    /\ currentUserSubject = NoUser
    /\ ~Truthy(localStorage.access_token)
    /\ ~Truthy(localStorage.currentUser)

\* C24: once logout() has been called and no login or signup is invoked
\* afterwards, the session stays empty in every later state, also when responses
\* to login or profile requests started before the logout arrive after it.
C24_LogoutIsFinal == loggedOut => SessionEmpty

\* C25: starting from empty storage, under every interleaving of login, signup
\* and logout calls and their responses, a user in the session cell implies
\* isAuthenticated() (a user is never held while no token is stored).
C25_UserImpliesToken == currentUserSubject # NoUser => isAuthenticated

\* C26: whenever durable storage holds both an access_token and a currentUser,
\* the token is the one the login endpoint issued for that user.
C26_TokenBelongsToUser ==
    (Truthy(localStorage.access_token) /\ Truthy(localStorage.currentUser))
       => localStorage.access_token = TokenForEmail(Parse(localStorage.currentUser).email)

\* the step ends call c in failure: credentials rejected, no token in the
\* response, or the profile fetch failing
LoginFailsAt(c) ==
    /\ lastOp'.op \in {"loginError", "loginNext", "getUserProfileError"}
    /\ lastOp'.call = c
    /\ calls[c].op = "login"
    /\ calls'[c].pc = "error"

\* C27: a login that ends in failure at any of its steps leaves the two
\* persisted keys and the session cell as they were before the call; stated for
\* the first call of a run, before which the session is empty (logout and a
\* reload keep it empty).
C27_FailedLoginLeavesSession ==
    [][(Len(calls) = 1 /\ LoginFailsAt(1))
          => /\ localStorage' = [access_token |-> Null, currentUser |-> Null]
             /\ currentUserSubject' = NoUser]_vars

----------------------------------------------------------------------------
(* Properties of the Inventory view-state *)

\* C1: while isLoading is true a call of onSubmit() issues no request and leaves
\* sneakers, the form and isLoading as they are; so at most one create request
\* is outstanding in every reachable state.
C1_SubmitGuard ==
    /\ [](Cardinality(Pending("create")) <= 1)
    /\ [][(isLoading /\ lastOp'.op = "onSubmit")
            => UNCHANGED <<sneakers, sneakerForm, isLoading, requests>>]_vars

\* onSubmit() was called again after the server had already handled the
\* outstanding create request
C1_Witness ==
    /\ isLoading
    /\ lastOp.op = "onSubmit"
    /\ \E r \in Pending("create") : requests[r].state = "answered"

Occurrences(id) == Cardinality({ i \in 1..Len(sneakers) : sneakers[i].id = id })

\* C2: when the response of a loadSneakers() call that was made after a create
\* had succeeded is delivered, the created item is in sneakers exactly once.
C2_CreateThenLoadOnce ==
    lastOp.op = "loadSneakersNext" =>
        \A id \in requests[lastOp.req].after : Occurrences(id) = 1

\* a list response delivered for a load issued after a successful create
C2_Witness ==
    /\ lastOp.op = "loadSneakersNext"
    /\ requests[lastOp.req].after # {}
    /\ Len(sneakers) >= 1

\* C11: a list request is issued only when a current user exists; a
\* loadSneakers() call leaves sneakers, isLoading, the three filter cells and the
\* create form as they are, and so does the delivery of a failed list response,
\* which issues no further request.
C11_LoadNeedsUserFailureKeepsState ==
    [][/\ (Len(requests') > Len(requests) /\ requests'[Len(requests')].kind = "list")
            => currentUserValue # NoUser
       /\ (lastOp'.op \in {"ngOnInit", "loadSneakers"} /\ currentUserValue = NoUser)
            => requests' = requests
       /\ lastOp'.op \in {"ngOnInit", "loadSneakers", "loadSneakersError"}
            => UNCHANGED <<sneakers, isLoading, searchText, selectedBrand, selectedSize,
                           sneakerForm>>
       /\ lastOp'.op = "loadSneakersError"
            => /\ Len(requests') = Len(requests)
               /\ \A i \in 1..Len(requests) :
                     i # lastOp'.req => requests'[i] = requests[i]]_vars

\* a list request failed while the view held an item
C11_Witness ==
    /\ lastOp.op = "loadSneakersError"
    /\ Len(sneakers) >= 1
    /\ currentUserValue # NoUser

\* C12: the delivery of a successful create response appends the returned item
\* after the earlier items, which keep their order, resets and enables the
\* create form and sets isLoading to false.
C12_CreateSuccessAppends ==
    [][lastOp'.op = "onSubmitNext" =>
          /\ Len(sneakers') = Len(sneakers) + 1
          /\ \A i \in 1..Len(sneakers) : sneakers'[i] = sneakers[i]
          /\ sneakers'[Len(sneakers')] = requests[lastOp'.req].response
          /\ sneakerForm'.value = EmptyFormValue
          /\ ~sneakerForm'.disabled
          /\ ~isLoading']_vars

\* a second item was created and appended
C12_Witness ==
    /\ lastOp.op = "onSubmitNext"
    /\ Len(sneakers) >= 2
    /\ sneakers[Len(sneakers)] = requests[lastOp.req].response

\* C13: the delivery of a failed create response leaves sneakers as it is,
\* enables the create form with the values that were submitted, sets isLoading
\* to false and issues no request.
C13_CreateFailureKeepsForm ==
    [][lastOp'.op = "onSubmitError" =>
          /\ sneakers' = sneakers
          /\ ~sneakerForm'.disabled
          /\ sneakerForm'.value = sneakerForm.value
          /\ NewSneaker(sneakerForm'.value) = requests[lastOp'.req].body
          /\ ~isLoading'
          /\ Len(requests') = Len(requests)]_vars

\* a create failed and the form holds the entered values again
C13_Witness ==
    /\ lastOp.op = "onSubmitError"
    /\ sneakerForm.value # EmptyFormValue
    /\ ~sneakerForm.disabled

\* C14: clearFilters() empties the three filter cells and changes nothing else;
\* right after it filteredSneakers is the item list.
C14_ClearFiltersFrame ==
    [][lastOp'.op = "clearFilters" =>
          /\ searchText' = <<>> /\ selectedBrand' = <<>> /\ selectedSize' = <<>>
          /\ UNCHANGED <<sneakers, isLoading, sneakerForm, requests, db>>
          /\ filteredSneakers' = sneakers']_vars

\* filters that hid an item were cleared
C14_Witness ==
    /\ lastOp.op = "clearFilters"
    /\ lastOp.narrowed
    /\ filteredSneakers = sneakers

\* a list request and a create request were outstanding at the same time
Overlapped(i, j) == i \in requests[j].open \/ j \in requests[i].open

\* C20: when a list request and a successful create request that were
\* outstanding together have both been delivered, the created item is in
\* sneakers exactly once and no id occurs twice.
C20_LoadCreateInterleavingBenign ==
    \A i, j \in 1..Len(requests) :
        ( /\ requests[i].kind = "list" /\ requests[j].kind = "create"
          /\ Overlapped(i, j)
          /\ requests[i].state = "done" /\ requests[j].state = "done"
          /\ requests[j].ok
          /\ lastOp.op \in {"loadSneakersNext", "loadSneakersError", "onSubmitNext"}
          /\ lastOp.req \in {i, j} )
        => /\ Occurrences(requests[j].response.id) = 1
           /\ \A a, b \in 1..Len(sneakers) : sneakers[a].id = sneakers[b].id => a = b

\* a create request has failed and its error callback has run
SomeCreateFailed ==
    \E r \in 1..Len(requests) :
        requests[r].kind = "create" /\ requests[r].state = "done" /\ ~requests[r].ok

\* C21: every failure is local to the triggering action: when every request
\* gets a response, a create submit() that set isLoading is eventually followed
\* by a state with isLoading false and the form enabled, and from such a state
\* a valid submit() issues a request again.
C21_SubmitRecovers ==
    /\ isLoading ~> (~isLoading /\ ~sneakerForm.disabled)
    /\ [][(lastOp'.op = "onSubmit" /\ ~isLoading /\ ~sneakerForm.disabled
               /\ ValidatorsPass(sneakerForm.value))
             => /\ Len(requests') = Len(requests) + 1
                /\ requests'[Len(requests')].kind = "create"
                /\ requests'[Len(requests')].state = "sent"]_vars

C21_Witness ==
    /\ SomeCreateFailed
    /\ lastOp.op = "onSubmit"
    /\ isLoading
    /\ Cardinality(Pending("create")) = 1

\* the step issues a request of that kind
Issues(kind) ==
    /\ Len(requests') = Len(requests) + 1
    /\ requests'[Len(requests')].kind = kind

\* C30: for every valid create form and every valid edit form in which
\* purchase_price holds a number (any value >= 0, 0 included), the payload sent
\* to the server carries that same purchase_price.
C30_PayloadCarriesPrice ==
    [][/\ (Issues("create") /\ sneakerForm.value.purchase_price # NoNumber)
             => requests'[Len(requests')].body.purchase_price
                    = sneakerForm.value.purchase_price
       /\ (Issues("update") /\ editForm.value.purchase_price # NoNumber)
             => requests'[Len(requests')].body.purchase_price
                    = editForm.value.purchase_price]_vars

----------------------------------------------------------------------------
(* The computed signals on drawn inputs *)

ItemLists == UNION { [1..n -> ItemPool] : n \in 0..MaxItems }

InitFilter ==
    /\ sneakers \in ItemLists
    /\ searchText \in SearchTexts
    /\ selectedBrand \in BrandChoices
    /\ selectedSize \in SizeChoices
    /\ isLoading = FALSE
    /\ sneakerForm = [value |-> EmptyFormValue, disabled |-> FALSE]
    /\ initialised = TRUE
    /\ NetInit
    /\ StorageInit
    /\ currentUserSubject = NoUser
    /\ calls = <<>>
    /\ lastOp = [op |-> "init"]
    /\ computedOut = [name |-> "none"]
    /\ DetailIdle
    /\ script = ScriptIdle
    /\ loggedOut = FALSE

ReadAvailableBrands ==
    /\ computedOut' = [name |-> "availableBrands", value |-> availableBrands]
    /\ UNCHANGED <<viewVars, netVars, authVars, lastOp, detailVars, script, loggedOut>>

ReadAvailableSizes ==
    /\ computedOut' = [name |-> "availableSizes", value |-> availableSizes]
    /\ UNCHANGED <<viewVars, netVars, authVars, lastOp, detailVars, script, loggedOut>>

ReadFilteredSneakers ==
    /\ computedOut' = [name |-> "filteredSneakers", value |-> filteredSneakers]
    /\ UNCHANGED <<viewVars, netVars, authVars, lastOp, detailVars, script, loggedOut>>

NextFilter == ReadAvailableBrands \/ ReadAvailableSizes \/ ReadFilteredSneakers

SpecFilter == InitFilter /\ [][NextFilter]_vars

----------------------------------------------------------------------------
(* Properties of the computed signals *)

\* q occurs in field when letter case is ignored
FoldCase(c) == IF c \in 97..122 THEN c - 32 ELSE c
OccursIgnoringCase(q, field) ==
    /\ field # Undefined /\ field # Null
    /\ \E start \in 1..Len(field) :
          /\ start + Len(q) - 1 <= Len(field)
          /\ \A j \in 1..Len(q) : FoldCase(field[start + j - 1]) = FoldCase(q[j])

PassesCriteria(s) ==
    /\ \/ searchText = <<>>
       \/ OccursIgnoringCase(searchText, s.brand)
       \/ OccursIgnoringCase(searchText, s.model)
       \/ OccursIgnoringCase(searchText, s.sku)
       \/ OccursIgnoringCase(searchText, s.color)
    /\ (selectedBrand = <<>> \/ selectedBrand = s.brand)
    /\ (selectedSize = <<>> \/ selectedSize = NumToString(s.size))

\* the items of arr that pass the criteria, in their original order
RECURSIVE Passing(_)
Passing(arr) ==
    IF arr = <<>> THEN <<>>
    ELSE (IF PassesCriteria(Head(arr)) THEN <<Head(arr)>> ELSE <<>>) \o Passing(Tail(arr))

\* C8: filteredSneakers is exactly the items, in their original order, that pass
\* all three criteria (search text empty or a case-insensitive substring of brand,
\* model, sku or color; brand empty or equal; size empty or equal to
\* size.toString()); with all three criteria empty it is the item list itself.
C8_FilteredIsConjunction ==
    computedOut.name = "filteredSneakers" =>
        /\ computedOut.value = Passing(sneakers)
        /\ (searchText = <<>> /\ selectedBrand = <<>> /\ selectedSize = <<>>
                => computedOut.value = sneakers)

\* all three criteria set, one item kept and one dropped
C8_Witness ==
    /\ computedOut.name = "filteredSneakers"
    /\ searchText # <<>> /\ selectedBrand # <<>> /\ selectedSize # <<>>
    /\ Len(computedOut.value) >= 1
    /\ Len(computedOut.value) < Len(sneakers)

\* a comes before b in the order of UTF-16 code units
CodeUnitLess(a, b) ==
    \E k \in 1..(Len(b)) :
        /\ \A j \in 1..(k - 1) : j <= Len(a) /\ a[j] = b[j]
        /\ (Len(a) = k - 1 \/ (Len(a) >= k /\ a[k] < b[k]))

Reorderings(arr) ==
    { [i \in 1..Len(arr) |-> arr[p[i]]] :
        p \in { q \in [1..Len(arr) -> 1..Len(arr)] :
                    \A i, j \in 1..Len(arr) : q[i] = q[j] => i = j } }

\* C9: availableBrands lists each brand of the items once, in ascending
\* code-unit (lexicographic) order, and is the same for every permutation of the
\* item list.
C9_BrandsSortedDistinct ==
    computedOut.name = "availableBrands" =>
        LET r == computedOut.value IN
        /\ { r[i] : i \in 1..Len(r) } = { sneakers[i].brand : i \in 1..Len(sneakers) }
        /\ \A i \in 1..(Len(r) - 1) : CodeUnitLess(r[i], r[i + 1])
        /\ \A perm \in Reorderings(sneakers) : AvailableBrands(perm) = r

\* three items of two brands, the list not in brand order
C9_Witness ==
    /\ computedOut.name = "availableBrands"
    /\ Len(sneakers) = 3
    /\ Len(computedOut.value) = 2
    /\ CodeUnitLess(sneakers[2].brand, sneakers[1].brand)

\* the numbers of a finite set in ascending order
Ascending(S) ==
    CHOOSE seq \in [1..Cardinality(S) -> S] :
        \A i, j \in 1..Cardinality(S) : i < j => seq[i] < seq[j]

\* C10: availableSizes is the distinct sizes of the items in ascending numeric
\* order, each rendered by toString (so 9, 10 and 8.5 give "8.5", "9", "10").
C10_SizesNumericOrder ==
    computedOut.name = "availableSizes" =>
        LET nums == Ascending({ sneakers[i].size : i \in 1..Len(sneakers) })
        IN  computedOut.value = [i \in 1..Len(nums) |-> NumToString(nums[i])]

\* the sizes 9, 10 and 8.5 in that order give "8.5", "9", "10"
C10_Witness ==
    /\ computedOut.name = "availableSizes"
    /\ Len(sneakers) = 3
    /\ sneakers[1].size = 90 /\ sneakers[2].size = 100 /\ sneakers[3].size = 85
    /\ computedOut.value = << <<56, 46, 53>>, <<57>>, <<49, 48>> >>

----------------------------------------------------------------------------
(* destroy.sh *)

\* "dev", "prd", "Dev", "prod", "dev " and the keys y, Y, n, e, s, space, newline
Dev == <<100, 101, 118>>
Prd == <<112, 114, 100>>
KeyY == 121
KeyCapitalY == 89
KeyN == 110
Space == 32
Newline == 10

\* the positional parameters the script is started with
ArgLists ==
    { <<>>, << <<>> >>, <<Dev>>, <<Prd>>, << <<68, 101, 118>> >>,
      << <<112, 114, 111, 100>> >>, << <<100, 101, 118, 32>> >>, <<Dev, Prd>> }

\* what the terminal or the pipe delivers on standard input: nothing, Enter,
\* "y", "Y", "n", "yes\n", " y", "ny"
Inputs ==
    { <<>>, <<Newline>>, <<KeyY>>, <<KeyCapitalY>>, <<KeyN>>,
      <<KeyY, 101, 115, Newline>>, <<Space, KeyY>>, <<KeyN, KeyY>> }

\* exit statuses of a terraform command: success, failure
TerraformStatuses == {0, 1}

\* $1
FirstParameter(argv) == IF Len(argv) >= 1 THEN argv[1] ELSE <<>>

\* exit N: the script ends with that status
Exit(s, status) == [s EXCEPT !.pc = "exited", !.status = status]

\* line 4: ENV=$1
AssignEnv ==
    /\ script.pc = "line4"
    /\ script' = [script EXCEPT !.pc = "line6", !.ENV = FirstParameter(script.argv)]
    /\ lastOp' = [op |-> "AssignEnv"]
    /\ UNCHANGED <<viewVars, netVars, authVars, computedOut, detailVars, loggedOut>>

\* lines 6-9: if [ -z "$ENV" ]; then echo usage; exit 1; fi
CheckUsage ==
    /\ script.pc = "line6"
    /\ script' = IF script.ENV = <<>> THEN Exit(script, 1)
                 ELSE [script EXCEPT !.pc = "line11"]
    /\ lastOp' = [op |-> "CheckUsage"]
    /\ UNCHANGED <<viewVars, netVars, authVars, computedOut, detailVars, loggedOut>>

\* [ "$ENV" != "dev" ] && [ "$ENV" != "prd" ]
EnvRejected(env) == env # Dev /\ env # Prd

\* lines 11-14: an environment other than dev and prd ends the script
CheckEnvironment ==
    /\ script.pc = "line11"
    /\ script' = IF EnvRejected(script.ENV) THEN Exit(script, 1)
                 ELSE [script EXCEPT !.pc = "line18"]
    /\ lastOp' = [op |-> "CheckEnvironment"]
    /\ UNCHANGED <<viewVars, netVars, authVars, computedOut, detailVars, loggedOut>>

\* read -n 1 -r: REPLY is the first character of the input; Enter and a blank
\* leave it empty
ReplyOf(input) ==
    IF input = <<>> \/ input[1] = Newline \/ input[1] = Space THEN <<>>
    ELSE <<input[1]>>

\* lines 16-19: the warning, then read; at end of input read fails and set -e
\* ends the script with read's status 1
ReadReply ==
    /\ script.pc = "line18"
    /\ script' = IF script.stdin = <<>> THEN Exit(script, 1)
                 ELSE [script EXCEPT !.pc = "line20", !.REPLY = ReplyOf(script.stdin),
                                     !.stdin = Tail(script.stdin)]
    /\ lastOp' = [op |-> "ReadReply"]
    /\ UNCHANGED <<viewVars, netVars, authVars, computedOut, detailVars, loggedOut>>

\* [[ $REPLY =~ ^[Yy]$ ]]
ReplyConfirms_notNo(reply) == reply # <<KeyN>>

ReplyConfirms(reply) == reply = <<KeyY>> \/ reply = <<KeyCapitalY>>

\* lines 20-23: any reply but y or Y prints "Aborted." and exits 1
CheckReply ==
    /\ script.pc = "line20"
    /\ script' = IF ~ReplyConfirms(script.REPLY) THEN Exit(script, 1)
                 ELSE [script EXCEPT !.pc = "line26"]
    /\ lastOp' = [op |-> "CheckReply"]
    /\ UNCHANGED <<viewVars, netVars, authVars, computedOut, detailVars, loggedOut>>

\* a terraform command line as the shell runs it
Terraform(subcommand, argument) == [subcommand |-> subcommand, argument |-> argument]

\* lines 25-26: terraform workspace select $ENV; set -e ends the script when it
\* fails
WorkspaceSelect(rc) ==
    /\ script.pc = "line26"
    /\ rc \in TerraformStatuses
    /\ LET ran == [script EXCEPT
                     !.commands = Append(@, Terraform("workspace select", script.ENV))]
       IN  script' = IF rc # 0 THEN Exit(ran, rc) ELSE [ran EXCEPT !.pc = "line29"]
    /\ lastOp' = [op |-> "WorkspaceSelect", rc |-> rc]
    /\ UNCHANGED <<viewVars, netVars, authVars, computedOut, detailVars, loggedOut>>

\* lines 28-29: terraform destroy -var-file="$ENV.tfvars"; its status is the
\* script's
Destroy(rc) ==
    /\ script.pc = "line29"
    /\ rc \in TerraformStatuses
    /\ script' = Exit([script EXCEPT
                         !.commands = Append(@, Terraform("destroy", script.ENV))], rc)
    /\ lastOp' = [op |-> "Destroy", rc |-> rc]
    /\ UNCHANGED <<viewVars, netVars, authVars, computedOut, detailVars, loggedOut>>

\* ./destroy.sh started with some parameters and some input
InitScript ==
    /\ ViewInit
    /\ NetInit
    /\ StorageInit
    /\ currentUserSubject = NoUser
    /\ calls = <<>>
    /\ lastOp = [op |-> "init"]
    /\ computedOut = [name |-> "none"]
    /\ DetailIdle
    /\ loggedOut = FALSE
    /\ \E argv \in ArgLists, input \in Inputs :
          script = [ScriptIdle EXCEPT !.pc = "line4", !.argv = argv, !.typed = input,
                                      !.stdin = input]

NextScript ==
    \/ AssignEnv
    \/ CheckUsage
    \/ CheckEnvironment
    \/ ReadReply
    \/ CheckReply
    \/ \E rc \in TerraformStatuses : WorkspaceSelect(rc)
    \/ \E rc \in TerraformStatuses : Destroy(rc)

SpecScript == InitScript /\ [][NextScript]_vars

----------------------------------------------------------------------------
(* Properties of destroy.sh *)

\* the reply to the one-key confirmation prompt: the first key typed, if any
KeyTyped == IF script.typed = <<>> THEN <<>> ELSE <<script.typed[1]>>

\* the argument is exactly dev or prd and the reply is y or Y
Confirmed ==
    /\ Len(script.argv) >= 1
    /\ script.argv[1] \in {Dev, Prd}
    /\ KeyTyped \in {<<KeyY>>, <<KeyCapitalY>>}

\* C22: the script runs terraform workspace select and terraform destroy only
\* when its argument is exactly dev or prd and the confirmation reply is y or Y;
\* with a missing or other argument, or any other reply, it exits with status 1
\* without running any terraform command.
C22_DestroyOnlyWhenConfirmed ==
    /\ script.commands # <<>> => Confirmed
    /\ \A i \in 1..Len(script.commands) :
          /\ script.commands[i].argument = script.argv[1]
          /\ script.commands[i].subcommand =
                 IF i = 1 THEN "workspace select" ELSE "destroy"
    /\ Len(script.commands) <= 2
    /\ (script.pc = "exited" /\ ~Confirmed)
          => script.status = 1 /\ script.commands = <<>>

C22_Witness ==
    /\ script.pc = "exited"
    /\ script.status = 0
    /\ script.argv = <<Prd>>
    /\ KeyTyped = <<KeyCapitalY>>
    /\ Len(script.commands) = 2

====
